---------------------------- MODULE Spec2Model ----------------------------
(***************************************************************************)
(* A model of avanov/python-rate-limiter: the RateLimiter configuration    *)
(* object (definitions.py), the decision engine is_limit_reached and its   *)
(* helpers (service.py), the in-process counter store ProcessState         *)
(* (in_memory.py) and the shared counter store RedisState (in_redis.py).   *)
(*                                                                         *)
(* Python values are represented as follows.                               *)
(*   Optional[str]   the empty set for None, {s} for the string s          *)
(*   str(int) keys   sequences of one-character strings, <<"6","0">>       *)
(*   dict            a function; its DOMAIN is the set of keys             *)
(*   an exception    a record field raised = TRUE                          *)
(***************************************************************************)
EXTENDS Integers, Sequences, FiniteSets, TLC

VARIABLES
    rate_limits,   \* the limiter sequence handed to is_limit_reached
    requests,      \* the requests the callers of this run may send
    faults,        \* the ways the store of this run may fail
    state,         \* ProcessState.state: domain key -> bucket id -> hits
    lock,          \* ProcessState.lock: 0 when free, else the holding thread
    now,           \* the clock, in seconds
    calls,         \* number of is_limit_reached calls started so far
    last,          \* what the last sequential is_limit_reached call did
    hist,          \* per domain key: history of the hits made on it
    th,            \* per thread: position and locals of its call
    applied,       \* per <<domain key, bucket id>>: increments completed
    probe,         \* input and output of the last pure-function evaluation
    redis          \* RedisState: the hashes of the Redis server, with TTLs

vars == <<rate_limits, requests, faults, state, lock, now, calls, last, hist,
          th, applied, probe, redis>>

---------------------------------------------------------------------------
(* Bounds of the model *)

MaxCalls == 6
MaxTicks == 4
NThreads == 2
MaxProbeBuckets == 62

(* The clock advances in steps of TickStep seconds. *)
TickStep == 20

---------------------------------------------------------------------------
(* Python values *)

None == {}
Some(s) == {s}
Value(o) == CHOOSE s \in o : TRUE

(* Truthiness of an Optional[str]: None and "" are falsy. *)
Truthy(o) == o # None /\ o # Some("")

DigitChars == <<"0", "1", "2", "3", "4", "5", "6", "7", "8", "9">>

(* str(n) for n >= 0 *)
RECURSIVE Str(_)
Str(n) ==
    IF n < 10 THEN <<DigitChars[n + 1]>>
    ELSE Str(n \div 10) \o <<DigitChars[(n % 10) + 1]>>

IsDigit(c) == \E d \in 1..10 : DigitChars[d] = c
DigitVal(c) == (CHOOSE d \in 1..10 : DigitChars[d] = c) - 1

(* int(s): raises ValueError unless s is a non-empty digit string *)
Parseable(s) == Len(s) > 0 /\ \A i \in 1..Len(s) : IsDigit(s[i])

RECURSIVE Timestamp(_)
Timestamp(s) ==
    IF Len(s) = 1 THEN DigitVal(s[1])
    ELSE 10 * Timestamp(SubSeq(s, 1, Len(s) - 1)) + DigitVal(s[Len(s)])

---------------------------------------------------------------------------
(* definitions.py *)

Windows == {"second", "minute", "hour", "day", "month", "year"}

WINDOW_BUCKETS_LIMITS ==
    [w \in Windows |->
        CASE w = "second" -> 60
          [] w = "minute" -> 60
          [] w = "hour"   -> 60
          [] w = "day"    -> 24
          [] w = "month"  -> 30
          [] w = "year"   -> 12]

(* a constructor that leaves the buckets of a second window as requested *)
RequestedBuckets(window, window_buckets) == window_buckets

(* RateLimiter.__init__: raised = TRUE is the ValueError, of Window(window) *)
(* for an unknown window string or of the window_buckets check.            *)
NormalizedBuckets(window, window_buckets) ==
    IF window = "second" THEN 1 ELSE window_buckets

ExceedsBuckets(window, window_buckets) ==
    window_buckets > WINDOW_BUCKETS_LIMITS[window]

RateLimiterInit(id_or_name, endpoint_name_filter, app_name_filter, user_filter, limit, window, window_buckets) ==
    IF window \notin Windows THEN [raised |-> TRUE]
    ELSE LET wb == NormalizedBuckets(window, window_buckets) IN
         IF ExceedsBuckets(window, wb) THEN [raised |-> TRUE]
         ELSE [raised |-> FALSE,
               rl |-> [id_or_name |-> id_or_name,
                       endpoint_name_filter |-> endpoint_name_filter,
                       app_name_filter |-> app_name_filter,
                       user_filter |-> user_filter,
                       limit |-> limit,
                       window |-> window,
                       window_buckets |-> wb]]

(* A limiter that construction accepts. *)
RateLimiter(id_or_name, endpoint_name_filter, app_name_filter, user_filter, limit, window, window_buckets) ==
    RateLimiterInit(id_or_name, endpoint_name_filter, app_name_filter,
                    user_filter, limit, window, window_buckets).rl

Request(app_id, user_id, endpoint) ==
    [app_id |-> app_id, user_id |-> user_id, endpoint |-> endpoint]

---------------------------------------------------------------------------
(* service.py: pure helpers *)

_SECONDS_IN_WINDOW_SIZE ==
    [w \in Windows |->
        CASE w = "second" -> 1
          [] w = "minute" -> 60
          [] w = "hour"   -> 60 * 60
          [] w = "day"    -> 60 * 60 * 24
          [] w = "month"  -> 60 * 60 * 24 * 30
          [] w = "year"   -> 60 * 60 * 24 * 365]

_NOT_LIMITED_BY_ENDPOINT_NAME == "~anyendpoint"
_NOT_LIMITED_BY_APP_NAME == "~anyapp"
_NOT_LIMITED_BY_USER == "~anyuser"

(* _match *)
FilterRejects(filter, actual) == Truthy(filter) /\ Value(filter) # actual

(* a predicate that forgets the application filter *)
MatchEndpointOnly(rate_limiter, request) ==
    ~FilterRejects(rate_limiter.endpoint_name_filter, request.endpoint)

_match(rate_limiter, request) ==
    IF FilterRejects(rate_limiter.endpoint_name_filter, request.endpoint)
    THEN FALSE
    ELSE IF FilterRejects(rate_limiter.app_name_filter, request.app_id)
    THEN FALSE
    ELSE TRUE

(* a window that reaches one bucket further back *)
WindowRangeLong(t, rl) ==
    LET seconds_per_bucket ==
            _SECONDS_IN_WINDOW_SIZE[rl.window] \div rl.window_buckets
        current_serial_bucket_pos == t \div seconds_per_bucket
    IN  [raised |-> FALSE,
         current_bucket |-> current_serial_bucket_pos * seconds_per_bucket,
         first_bucket |->
             (current_serial_bucket_pos - rl.window_buckets)
                 * seconds_per_bucket,
         lifetime |-> rl.window_buckets * seconds_per_bucket]

(* _get_window_range: raised = TRUE is the ZeroDivisionError of either     *)
(* division.  Divisors are positive here, where \div is Python's //.       *)
_get_window_range(t, rl) ==
    IF rl.window_buckets = 0 THEN [raised |-> TRUE]
    ELSE LET seconds_per_bucket ==
                 _SECONDS_IN_WINDOW_SIZE[rl.window] \div rl.window_buckets
         IN  IF seconds_per_bucket = 0 THEN [raised |-> TRUE]
             ELSE LET current_serial_bucket_pos == t \div seconds_per_bucket
                  IN  [raised |-> FALSE,
                       current_bucket |->
                           current_serial_bucket_pos * seconds_per_bucket,
                       first_bucket |->
                           (current_serial_bucket_pos - rl.window_buckets + 1)
                               * seconds_per_bucket,
                       lifetime |-> rl.window_buckets * seconds_per_bucket]

(* _get_counter_domain_key: the f-string, by concatenation *)
OrElse(filter, sentinel) == IF Truthy(filter) THEN Value(filter) ELSE sentinel

(* a key that forgets the per-user flag *)
KeyWithoutUser(rl, request) ==
    "LIMIT:" \o rl.id_or_name \o ":"
        \o OrElse(rl.app_name_filter, _NOT_LIMITED_BY_APP_NAME) \o ":"
        \o OrElse(rl.endpoint_name_filter, _NOT_LIMITED_BY_ENDPOINT_NAME)
        \o ":" \o _NOT_LIMITED_BY_USER

_get_counter_domain_key(rl, request) ==
    LET endpoint_name ==
            OrElse(rl.endpoint_name_filter, _NOT_LIMITED_BY_ENDPOINT_NAME)
        app_name == OrElse(rl.app_name_filter, _NOT_LIMITED_BY_APP_NAME)
        user_id == IF rl.user_filter THEN request.user_id
                   ELSE _NOT_LIMITED_BY_USER
    IN  "LIMIT:" \o rl.id_or_name \o ":" \o app_name \o ":"
            \o endpoint_name \o ":" \o user_id

(* sorted(rate_limits, key=lambda x: x.limit): a stable sort *)
RECURSIVE InsertByLimit(_, _)
InsertByLimit(sorted, rl) ==
    IF sorted = <<>> THEN <<rl>>
    ELSE IF sorted[Len(sorted)].limit <= rl.limit THEN Append(sorted, rl)
    ELSE Append(InsertByLimit(SubSeq(sorted, 1, Len(sorted) - 1), rl),
                sorted[Len(sorted)])

(* the limiters as supplied, not sorted *)
Unsorted(rls) == rls

RECURSIVE SortedByLimit(_)
SortedByLimit(rls) ==
    IF rls = <<>> THEN <<>>
    ELSE InsertByLimit(SortedByLimit(SubSeq(rls, 1, Len(rls) - 1)),
                       rls[Len(rls)])

---------------------------------------------------------------------------
(* in_memory.py: ProcessState, as operators on the value of self.state *)

EmptyDict == <<>>

(* self.state.setdefault(domain_key, defaultdict(int)) *)
SetDefault(st, domain_key) ==
    IF domain_key \in DOMAIN st THEN st ELSE st @@ (domain_key :> EmptyDict)

(* defaultdict(int).__getitem__: a missing key is inserted with 0 *)
GetItem(d, k) == IF k \in DOMAIN d THEN d ELSE d @@ (k :> 0)

(* dict.__setitem__ *)
SetItem(d, k, v) == [x \in DOMAIN d \cup {k} |-> IF x = k THEN v ELSE d[x]]

(* dict.pop(x) with the KeyError swallowed *)
Pop(d, k) == [x \in DOMAIN d \ {k} |-> d[x]]

(* domain_buckets[str(window_range.current_bucket)] += 1 *)
Incremented(d, k) == SetItem(GetItem(d, k), k, GetItem(d, k)[k] + 1)

(* hit_and_collect_counters run alone: the new self.state; the mapping it *)
(* returns is the domain key's own dict, self.state[domain_key].          *)
HitAndCollect(st, domain_key, window_range) ==
    LET st1 == SetDefault(st, domain_key)
    IN  [st1 EXCEPT ![domain_key] =
             Incremented(@, Str(window_range.current_bucket))]

(* an expire_buckets that removes nothing *)
ExpireNothing(st, domain_key, buckets) == st

(* expire_buckets run alone *)
ExpireBuckets(st, domain_key, buckets) ==
    IF domain_key \notin DOMAIN st \/ st[domain_key] = EmptyDict THEN st
    ELSE [st EXCEPT ![domain_key] = [x \in DOMAIN @ \ buckets |-> @[x]]]

---------------------------------------------------------------------------
(* in_redis.py: RedisState, as operators on the hashes of the server.  A   *)
(* hash is [fields, expire_at]; the server's clock is the clock of the     *)
(* callers.  A hash whose time to live has elapsed stays in the keyspace   *)
(* until a write replaces it, and no command sees it.                      *)

NoTTL == -1

Alive(rs, t, key) ==
    key \in DOMAIN rs /\ (rs[key].expire_at = NoTTL \/ rs[key].expire_at > t)

(* a time to live of one second, whatever was asked for *)
ExpireAtOnce(t, seconds) == t + 1

(* the time at which a hash given seconds to live at t is gone *)
ExpireAt(t, seconds) == t + seconds

(* HINCRBY key field 1: a missing hash or field is created, without TTL *)
HIncrBy(rs, t, key, field) ==
    IF Alive(rs, t, key)
    THEN [rs EXCEPT ![key].fields = Incremented(@, field)]
    ELSE SetItem(rs, key, [fields |-> Incremented(EmptyDict, field),
                           expire_at |-> NoTTL])

(* an EXPIRE that is not sent *)
ExpireSkipped(rs, t, key, seconds) == rs

(* EXPIRE key seconds: seconds <= 0 deletes the hash *)
Expire(rs, t, key, seconds) ==
    IF ~Alive(rs, t, key) THEN rs
    ELSE IF seconds <= 0 THEN [k \in DOMAIN rs \ {key} |-> rs[k]]
    ELSE [rs EXCEPT ![key].expire_at = ExpireAt(t, seconds)]

(* HGETALL key *)
HGetAll(rs, t, key) == IF Alive(rs, t, key) THEN rs[key].fields ELSE EmptyDict

(* HDEL key field...: an error without fields; a hash left without fields *)
(* is deleted                                                              *)
HDel(rs, t, key, fields) ==
    IF fields = {} THEN [raised |-> TRUE, st |-> rs]
    ELSE IF ~Alive(rs, t, key) THEN [raised |-> FALSE, st |-> rs]
    ELSE LET left == [x \in DOMAIN rs[key].fields \ fields |->
                         rs[key].fields[x]]
         IN  [raised |-> FALSE,
              st |-> IF left = EmptyDict
                     THEN [k \in DOMAIN rs \ {key} |-> rs[k]]
                     ELSE [rs EXCEPT ![key].fields = left]]

(* RedisState.hit_and_collect_counters: the pipeline, run as a transaction *)
RedisHitAndCollect(rs, t, domain_key, window_range) ==
    Expire(HIncrBy(rs, t, domain_key, Str(window_range.current_bucket)),
           t, domain_key, window_range.lifetime)

(* an expire_buckets that sends HDEL whatever the list holds *)
RedisExpireUnguarded(rs, t, domain_key, buckets) ==
    HDel(rs, t, domain_key, buckets)

(* RedisState.expire_buckets *)
RedisExpireBuckets(rs, t, domain_key, buckets) ==
    IF buckets # {} THEN HDel(rs, t, domain_key, buckets)
    ELSE [raised |-> FALSE, st |-> rs]

---------------------------------------------------------------------------
(* definitions.py: IState, the store handed to the decision engine, as a   *)
(* kind and the value of its store at clock t                              *)

StateKinds == {"ProcessState", "RedisState"}

(* the store after state.hit_and_collect_counters(domain_key, window_range) *)
hit_and_collect_counters(kind, st, t, domain_key, window_range) ==
    IF kind = "RedisState"
    THEN RedisHitAndCollect(st, t, domain_key, window_range)
    ELSE HitAndCollect(st, domain_key, window_range)

(* the mapping that call returned, from the store st1 it left *)
Counters(kind, st1, t, domain_key) ==
    IF kind = "RedisState" THEN HGetAll(st1, t, domain_key)
    ELSE st1[domain_key]

(* state.expire_buckets(domain_key, buckets) *)
expire_buckets(kind, st, t, domain_key, buckets) ==
    IF kind = "RedisState" THEN RedisExpireBuckets(st, t, domain_key, buckets)
    ELSE [raised |-> FALSE, st |-> ExpireBuckets(st, domain_key, buckets)]

---------------------------------------------------------------------------
(* service.py: _hit and is_limit_reached, run without interleaving *)

(* The ways a store call of _hit can fail:                                 *)
(*   "hit"     hit_and_collect_counters raises, nothing is incremented     *)
(*   "parse"   the returned mapping holds a bucket id that is no number    *)
(*   "expire"  expire_buckets raises, nothing is removed                   *)
FaultModes == {"none", "hit", "parse", "expire"}

Malformed == <<"x">>

RECURSIVE SumOver(_, _)
SumOver(d, keys) ==
    IF keys = {} THEN 0
    ELSE LET k == CHOOSE x \in keys : TRUE
         IN  d[k] + SumOver(d, keys \ {k})

(* a loop that also expires the first bucket of the window *)
ExpiredOfInclusive(counters, window_range) ==
    {b \in DOMAIN counters : Timestamp(b) <= window_range.first_bucket}

(* the buckets of the returned mapping the loop of _hit puts in expired *)
ExpiredOf(counters, window_range) ==
    {b \in DOMAIN counters : Timestamp(b) < window_range.first_bucket}

(* the loop's total_hits *)
TotalHits(counters, window_range) ==
    SumOver(counters, DOMAIN counters \ ExpiredOf(counters, window_range))

(* a comparison that rejects the hit reaching the limit *)
WithinLimitStrict(total_hits, rl) == total_hits < rl.limit

WithinLimit(total_hits, rl) == total_hits <= rl.limit

(* an except branch that fails closed *)
OnExceptionClosed == FALSE

(* the value of _hit when its try block raised *)
OnException == TRUE

(* What one evaluation of _hit did; key = "" when it raised before the     *)
(* domain key was computed.                                                *)
NoHit(st, rl, request, domain_key) ==
    [state |-> st, passed |-> OnException, raised |-> TRUE,
     incremented |-> FALSE, limit |-> rl.limit, id |-> rl.id_or_name,
     user_id |-> request.user_id, key |-> domain_key,
     current_bucket |-> 0, first_bucket |-> 0, total_hits |-> 0,
     counted |-> {}, expired |-> {}]

_hit(kind, st, t, rl, request, fault) ==
    LET window_range == _get_window_range(t, rl)
        domain_key == _get_counter_domain_key(rl, request)
    IN  IF window_range.raised THEN NoHit(st, rl, request, "")
        ELSE IF fault = "hit" THEN NoHit(st, rl, request, domain_key)
        ELSE
        LET st1 == hit_and_collect_counters(kind, st, t, domain_key,
                                            window_range)
            returned == Counters(kind, st1, t, domain_key)
            counters == IF fault = "parse"
                        THEN returned @@ (Malformed :> 1)
                        ELSE returned
            base == [NoHit(st1, rl, request, domain_key) EXCEPT
                        !.incremented = TRUE,
                        !.current_bucket = window_range.current_bucket,
                        !.first_bucket = window_range.first_bucket]
        IN  IF \E b \in DOMAIN counters : ~Parseable(b) THEN base
            ELSE
            LET expired == ExpiredOf(counters, window_range)
                total_hits == TotalHits(counters, window_range)
                seen == [base EXCEPT
                            !.total_hits = total_hits, !.expired = expired,
                            !.counted = {Timestamp(b) :
                                            b \in DOMAIN counters \ expired}]
                cleaned == expire_buckets(kind, st1, t, domain_key, expired)
            IN  IF fault = "expire" \/ cleaned.raised THEN seen
                ELSE [seen EXCEPT
                         !.state = cleaned.st,
                         !.raised = FALSE,
                         !.passed = WithinLimit(total_hits, rl)]

(* all(_hit(...) for rl in rate_limits if _match(rl, request)): the hits  *)
(* made, in order, up to and including the first that did not pass.       *)
RECURSIVE HitsFrom(_, _, _, _, _, _, _)
HitsFrom(kind, st, t, sorted, i, request, fault) ==
    IF i > Len(sorted) THEN <<>>
    ELSE IF ~_match(sorted[i], request)
    THEN HitsFrom(kind, st, t, sorted, i + 1, request, fault)
    ELSE LET h == _hit(kind, st, t, sorted[i], request, fault[i])
         IN  IF ~h.passed THEN <<h>>
             ELSE <<h>> \o HitsFrom(kind, h.state, t, sorted, i + 1, request,
                                    fault)

NotAll(hits) == \E i \in 1..Len(hits) : ~hits[i].passed

(* is_limit_reached at clock t on a store of the kind; fault[i] is how the *)
(* store fails on the i-th limiter of the sorted sequence.                 *)
is_limit_reached(kind, st, limiters, request, t, fault) ==
    LET sorted == SortedByLimit(limiters)
        hits == HitsFrom(kind, st, t, sorted, 1, request, fault)
    IN  [verdict |-> NotAll(hits),
         hits |-> hits,
         state |-> IF hits = <<>> THEN st ELSE hits[Len(hits)].state]

---------------------------------------------------------------------------
(* History of the hits made on each domain key, kept beside the store:     *)
(*   n       increments applied to the key                                 *)
(*   bucket  current_bucket of the first of them                           *)
(*   same    all of them fell into that bucket                             *)
(*   clean   no evaluation of _hit on the key raised                       *)
(*   over    over the evaluations that saw total_hits > limit, the largest *)
(*           "oldest bucket counted"; -1 when there was none               *)
(*   by      <<limiter id, user id>> -> increments made for that pair      *)

NoHistory ==
    [n |-> 0, bucket |-> -1, same |-> TRUE, clean |-> TRUE, over |-> -1,
     by |-> <<>>]

HistoryOf(hs, k) == IF k \in DOMAIN hs THEN hs[k] ELSE NoHistory

Max(a, b) == IF a >= b THEN a ELSE b
MinOf(S) == CHOOSE x \in S : \A y \in S : x <= y

HistStep(hs, h) ==
    IF h.key = "" THEN hs
    ELSE
    LET old == HistoryOf(hs, h.key)
        who == <<h.id, h.user_id>>
        new ==
          [n |-> IF h.incremented THEN old.n + 1 ELSE old.n,
           bucket |-> IF h.incremented /\ old.n = 0 THEN h.current_bucket
                      ELSE old.bucket,
           same |-> old.same /\ (h.incremented /\ old.n > 0
                                    => h.current_bucket = old.bucket),
           clean |-> old.clean /\ ~h.raised,
           over |-> IF ~h.raised /\ h.total_hits > h.limit
                    THEN Max(old.over, MinOf(h.counted)) ELSE old.over,
           by |-> IF h.incremented
                  THEN SetItem(GetItem(old.by, who), who,
                               GetItem(old.by, who)[who] + 1)
                  ELSE old.by]
    IN  SetItem(hs, h.key, new)

RECURSIVE HistAfter(_, _)
HistAfter(hs, hits) ==
    IF hits = <<>> THEN hs
    ELSE HistAfter(HistStep(hs, Head(hits)), Tail(hits))

(* The hits of one call as last records them: without the store, with the *)
(* key's history after the hit and the value of over before it.           *)
RECURSIVE LogOf(_, _)
LogOf(hs, hits) ==
    IF hits = <<>> THEN <<>>
    ELSE LET h == Head(hits)
             hs1 == HistStep(hs, h)
             after == HistoryOf(hs1, h.key)
         IN  <<[id |-> h.id, user_id |-> h.user_id, key |-> h.key,
                limit |-> h.limit, passed |-> h.passed, raised |-> h.raised,
                incremented |-> h.incremented,
                current_bucket |-> h.current_bucket,
                first_bucket |-> h.first_bucket,
                total_hits |-> h.total_hits, expired |-> h.expired,
                n |-> after.n, same |-> after.same, clean |-> after.clean,
                overBefore |-> HistoryOf(hs, h.key).over]>>
             \o LogOf(hs1, Tail(hits))

---------------------------------------------------------------------------
(* The runs of the decision engine that are checked: a limiter sequence,   *)
(* the requests sent against it and the failures its store may show.       *)

Req(app_id, user_id, endpoint) == Request(app_id, user_id, endpoint)

EndToEnd ==
    [rate_limits |-> <<RateLimiter("t", Some("/x"), None, FALSE, 2, "minute", 1)>>,
     requests |-> {Req("a1", "u1", "/x"), Req("a1", "u1", "/y")},
     faults |-> {"none"}]

Rolling ==
    [rate_limits |-> <<RateLimiter("r", None, None, FALSE, 2, "minute", 2)>>,
     requests |-> {Req("a1", "u1", "/x")},
     faults |-> {"none"}]

Burst ==
    [rate_limits |-> <<RateLimiter("loose", Some("/x"), None, FALSE, 50, "minute", 1),
                       RateLimiter("tight", Some("/x"), None, FALSE, 5, "minute", 1)>>,
     requests |-> {Req("a1", "u1", "/x")},
     faults |-> {"none"}]

PerUser ==
    [rate_limits |-> <<RateLimiter("u", None, None, TRUE, 1, "minute", 1),
                       RateLimiter("g", None, None, FALSE, 3, "hour", 1)>>,
     requests |-> {Req("a1", "A", "/x"), Req("a1", "B", "/x")},
     faults |-> {"none"}]

Filtered ==
    [rate_limits |-> <<RateLimiter("e", Some("/x"), None, FALSE, 1, "minute", 1),
                       RateLimiter("a", None, Some("a1"), FALSE, 2, "minute", 1),
                       RateLimiter("ea", Some("/y"), Some("a2"), FALSE, 1, "minute", 1),
                       RateLimiter("z", Some(""), Some(""), FALSE, 3, "minute", 1)>>,
     requests |-> {Req(a, "u1", e) : a \in {"a1", "a2"}, e \in {"/x", "/y"}},
     faults |-> {"none"}]

Unreliable(fault) ==
    [rate_limits |-> <<RateLimiter("q", None, None, FALSE, 2, "hour", 1),
                       RateLimiter("p", None, None, FALSE, 1, "minute", 2)>>,
     requests |-> {Req("a1", "A", "/x")},
     faults |-> {"none", fault}]

ZeroBuckets ==
    [rate_limits |-> <<RateLimiter("w", None, None, FALSE, 1, "minute", 0),
                       RateLimiter("q", None, None, TRUE, 2, "hour", 1)>>,
     requests |-> {Req("a1", "A", "/x"), Req("a1", "B", "/x")},
     faults |-> {"none"}]

Outage ==
    [rate_limits |-> <<RateLimiter("q", None, None, TRUE, 1, "minute", 1),
                       RateLimiter("p", Some("/x"), None, FALSE, 1, "minute", 2)>>,
     requests |-> {Req("a1", "A", "/x"), Req("a1", "B", "/y")},
     faults |-> {"hit"}]

Scenarios ==
    {EndToEnd, Rolling, Burst, PerUser, Filtered, ZeroBuckets, Outage}
        \cup {Unreliable(fault) : fault \in FaultModes \ {"none"}}

---------------------------------------------------------------------------
(* The decision engine, one call at a time *)

NoThread == 0
Threads == 1..NThreads

NoCall ==
    [request |-> Req("", "", ""), t |-> 0, verdict |-> FALSE, hits |-> <<>>,
     before |-> <<>>]

Idle == [pc |-> "idle"]

Init ==
    /\ \E s \in Scenarios :
          /\ rate_limits = s.rate_limits
          /\ requests = s.requests
          /\ faults = s.faults
    /\ state = <<>>
    /\ lock = NoThread
    /\ now = 0
    /\ calls = 0
    /\ last = NoCall
    /\ hist = <<>>
    /\ th = [t \in Threads |-> Idle]
    /\ applied = <<>>
    /\ probe = <<>>
    /\ redis = <<>>

(* time.time() moves on between calls *)
Tick ==
    /\ now < MaxTicks * TickStep
    /\ now' = now + TickStep
    /\ UNCHANGED <<rate_limits, requests, faults, state, lock, calls, last,
                   hist, th, applied, probe, redis>>

(* one call of is_limit_reached(state, rate_limits, request) *)
Call(request, fault) ==
    /\ calls < MaxCalls
    /\ \E r \in {is_limit_reached("ProcessState", state, rate_limits, request, now, fault)} :
           /\ state' = r.state
           /\ last' = [request |-> request, t |-> now, verdict |-> r.verdict,
                       hits |-> LogOf(hist, r.hits), before |-> state]
           /\ hist' = HistAfter(hist, r.hits)
    /\ calls' = calls + 1
    /\ UNCHANGED <<rate_limits, requests, faults, lock, now, th, applied,
                   probe, redis>>

IsLimitReached ==
    \E request \in requests :
        \E fault \in [1..Len(rate_limits) -> faults] : Call(request, fault)

Next == Tick \/ IsLimitReached

Spec == Init /\ [][Next]_vars

---------------------------------------------------------------------------
(* Vocabulary of the properties of the decision engine *)

Entries == {last.hits[i] : i \in 1..Len(last.hits)}
HitIds == {e.id : e \in Entries}
Limiters == {rate_limits[i] : i \in 1..Len(rate_limits)}

DictAt(st, k) == IF k \in DOMAIN st THEN st[k] ELSE EmptyDict
CountAt(st, k, b) ==
    IF k \in DOMAIN st /\ b \in DOMAIN st[k] THEN st[k][b] ELSE 0

(* a filter that is None, and one that filters nothing *)
Unset(filter) == filter = None
Empty(filter) == filter = Some("")

(* the matching rule with "unset" read as None *)
MatchesAsStated(rl, request) ==
    /\ Unset(rl.endpoint_name_filter)
          \/ rl.endpoint_name_filter = Some(request.endpoint)
    /\ Unset(rl.app_name_filter)
          \/ rl.app_name_filter = Some(request.app_id)

(* the matching rule with "unset" read as None or the empty string *)
Matches(rl, request) ==
    /\ Unset(rl.endpoint_name_filter) \/ Empty(rl.endpoint_name_filter)
          \/ rl.endpoint_name_filter = Some(request.endpoint)
    /\ Unset(rl.app_name_filter) \/ Empty(rl.app_name_filter)
          \/ rl.app_name_filter = Some(request.app_id)

MatchingIds == {rl.id_or_name : rl \in {x \in Limiters : Matches(x, last.request)}}

---------------------------------------------------------------------------
(* C1: for a single matching limiter with limit L and an error-free store, *)
(* the n-th of the hits made on one domain key within one current bucket   *)
(* observes total_hits = n and passes iff n <= L, so is_limit_reached      *)
(* answers "not limited" for hits 1..L and "limited" for hit L+1.          *)
C1_NthHitCountsN ==
    \A e \in Entries :
        e.clean /\ e.same =>
            /\ e.total_hits = e.n
            /\ e.passed <=> e.n <= e.limit
            /\ MatchingIds = {e.id} => (last.verdict <=> e.n > e.limit)

C1_Witness ==
    /\ rate_limits = EndToEnd.rate_limits
    /\ last.request = Req("a1", "u1", "/x")
    /\ last.verdict
    /\ \E e \in Entries : e.clean /\ e.same /\ e.n = e.limit + 1
    /\ calls = 3

(* C2: once a hit on a limiter has observed total_hits > limit, every      *)
(* later error-free hit on that domain key whose window still holds the    *)
(* buckets counted then is reported as limited; a rejected hit is counted. *)
C2_StaysLimited ==
    \A e \in Entries :
        /\ ~e.raised /\ e.overBefore >= 0 /\ e.first_bucket <= e.overBefore
              => ~e.passed
        /\ ~e.raised /\ ~e.passed =>
              CountAt(state, e.key, Str(e.current_bucket))
                  = CountAt(last.before, e.key, Str(e.current_bucket)) + 1

C2_Witness ==
    /\ rate_limits = Rolling.rate_limits
    /\ \E e \in Entries :
          /\ ~e.raised /\ ~e.passed
          /\ e.overBefore >= 0
          /\ e.overBefore < e.current_bucket
          /\ e.first_bucket <= e.overBefore

(* C3: the matching limiters are hit in ascending order of limit and the   *)
(* call stops at the first hit that is not within limit: no later limiter  *)
(* is hit and its counters are as before the call.  With limits 5 and 50   *)
(* on one endpoint, a burst is limited exactly from the 6th request on,    *)
(* and after the 6th the limit-50 counter is 5.                            *)
TightKey == _get_counter_domain_key(Burst.rate_limits[2], Req("a1", "u1", "/x"))
LooseKey == _get_counter_domain_key(Burst.rate_limits[1], Req("a1", "u1", "/x"))

C3_AscendingShortCircuit ==
    calls > 0 =>
    /\ \A i, j \in 1..Len(last.hits) :
          i < j => /\ last.hits[i].limit <= last.hits[j].limit
                   /\ last.hits[i].passed
    /\ \A rl \in Limiters :
          /\ Matches(rl, last.request)
          /\ rl.id_or_name \notin HitIds
          => /\ \E e \in Entries : ~e.passed /\ e.limit <= rl.limit
             /\ LET k == _get_counter_domain_key(rl, last.request)
                IN  DictAt(state, k) = DictAt(last.before, k)
    /\ rate_limits = Burst.rate_limits
       /\ HistoryOf(hist, TightKey).same
       => /\ last.verdict <=> HistoryOf(hist, TightKey).n >= 6
          /\ HistoryOf(hist, TightKey).n = 6 =>
                /\ HistoryOf(hist, LooseKey).n = 5
                /\ CountAt(state, LooseKey, Str(last.hits[1].current_bucket)) = 5

C3_Witness ==
    /\ rate_limits = Burst.rate_limits
    /\ HistoryOf(hist, TightKey).same
    /\ HistoryOf(hist, TightKey).n = 6
    /\ last.verdict
    /\ Len(last.hits) = 1
    /\ HistoryOf(hist, LooseKey).n = 5

(* C4: a hit that raises counts as within limit, the limiters after it    *)
(* are still evaluated, and when every store call fails the verdict is     *)
(* "not limited".                                                          *)
C4_FailOpen ==
    calls > 0 =>
    /\ \A e \in Entries : e.raised => e.passed
    /\ (\A e \in Entries : e.passed) => HitIds = MatchingIds
    /\ (\A e \in Entries : e.raised) => ~last.verdict
    /\ faults = {"hit"} => ~last.verdict

C4_Witness ==
    /\ Len(last.hits) = 2
    /\ last.hits[1].raised /\ last.hits[1].incremented
    /\ last.hits[1].passed
    /\ ~last.hits[2].raised /\ ~last.hits[2].passed
    /\ last.verdict

(* C8: a limiter with user_filter counts each user id in a counter of its  *)
(* own (limit 1: a first hit by A and one by B pass, a second hit by A is  *)
(* rejected); a limiter without it counts all users in one counter.        *)
UserFilterOf(id) == (CHOOSE rl \in Limiters : rl.id_or_name = id).user_filter
CountedBy(k) == DOMAIN hist[k].by

C8_PerUserCounters ==
    /\ \A k \in DOMAIN hist : \A p, q \in CountedBy(k) :
          /\ p[1] = q[1]
          /\ UserFilterOf(p[1]) => p[2] = q[2]
    /\ \A k1, k2 \in DOMAIN hist :
          \A p \in CountedBy(k1), q \in CountedBy(k2) :
              p[1] = q[1] /\ (~UserFilterOf(p[1]) \/ p[2] = q[2]) => k1 = k2
    /\ \A e \in Entries :
          UserFilterOf(e.id) /\ e.clean /\ e.same =>
              /\ e.total_hits = hist[e.key].by[<<e.id, e.user_id>>]
              /\ e.passed <=> hist[e.key].by[<<e.id, e.user_id>>] <= e.limit

PerUserKey(user_id) ==
    _get_counter_domain_key(PerUser.rate_limits[1], Req("a1", user_id, "/x"))
SharedKey ==
    _get_counter_domain_key(PerUser.rate_limits[2], Req("a1", "A", "/x"))

C8_Witness ==
    /\ rate_limits = PerUser.rate_limits
    /\ calls = 3
    /\ HistoryOf(hist, PerUserKey("A")).n = 2
    /\ HistoryOf(hist, PerUserKey("B")).n = 1
    /\ HistoryOf(hist, PerUserKey("A")).same
    /\ CountAt(state, PerUserKey("B"), Str(0)) = 1
    /\ CountedBy(SharedKey) = {<<"g", "A">>, <<"g", "B">>}
    /\ last.request.user_id = "A" /\ last.verdict

(* C9 as stated: a limiter matches a request iff each of its filters is    *)
(* unset or equals the request's value; a limiter that does not match is   *)
(* not hit and keeps its counters, and a call no limiter matches answers   *)
(* "not limited" and leaves the store as it was.                           *)
C9_MatchAsStated ==
    calls > 0 =>
        \A rl \in Limiters :
            /\ _match(rl, last.request) <=> MatchesAsStated(rl, last.request)
            /\ rl.id_or_name \in HitIds => MatchesAsStated(rl, last.request)

(* C9, amended: a limiter matches a request iff each of its filters is     *)
(* unset or the empty string, or equals the request's value; a limiter     *)
(* that does not match is not hit and keeps its counters, the first        *)
(* matching limiter is hit, and a call no limiter matches answers "not     *)
(* limited" and leaves the store as it was.                                *)
C9_MatchFrame ==
    /\ \A rl \in Limiters : \A r \in requests : _match(rl, r) <=> Matches(rl, r)
    /\ calls > 0 =>
          /\ HitIds \subseteq MatchingIds
          /\ MatchingIds # {} => HitIds # {}
          /\ \A rl \in Limiters :
                ~Matches(rl, last.request) =>
                    LET k == _get_counter_domain_key(rl, last.request)
                    IN  DictAt(state, k) = DictAt(last.before, k)
          /\ MatchingIds = {} => ~last.verdict /\ state = last.before

C9_Witness ==
    /\ rate_limits = Filtered.rate_limits
    /\ last.request = Req("a2", "u1", "/x")
    /\ HitIds = {"e", "z"}
    /\ \E e \in Entries : e.id = "z" /\ e.n = 2
    /\ state # last.before

---------------------------------------------------------------------------
(* Construction of limiters: RateLimiter(...) on every window string and   *)
(* every requested window_buckets of the range.                            *)

WindowInputs == Windows \cup {"week"}
BucketInputs == -1..MaxProbeBuckets

NoProbe == [op |-> "none"]

InitCtor ==
    /\ rate_limits = <<>>
    /\ requests = {}
    /\ faults = {}
    /\ state = <<>>
    /\ lock = NoThread
    /\ now = 0
    /\ calls = 0
    /\ last = NoCall
    /\ hist = <<>>
    /\ th = [t \in Threads |-> Idle]
    /\ applied = <<>>
    /\ probe = NoProbe
    /\ redis = <<>>

Construct ==
    \E window \in WindowInputs, window_buckets \in BucketInputs :
        /\ probe' = [op |-> "RateLimiter", window |-> window,
                     window_buckets |-> window_buckets,
                     result |-> RateLimiterInit("t", None, None, FALSE, 1,
                                                window, window_buckets)]
        /\ UNCHANGED <<rate_limits, requests, faults, state, lock, now, calls,
                       last, hist, th, applied, redis>>

NextCtor == Construct

SpecCtor == InitCtor /\ [][NextCtor]_vars

Constructed == probe.op = "RateLimiter" /\ probe.window \in Windows

(* C10 as stated: construction fails when window_buckets exceeds the       *)
(* maximum of the window kind (60 for second) and succeeds at or below     *)
(* it, and a second-window limiter that was built has window_buckets = 1.  *)
C10_AsStated ==
    Constructed =>
        /\ probe.result.raised
              <=> probe.window_buckets > WINDOW_BUCKETS_LIMITS[probe.window]
        /\ ~probe.result.raised /\ probe.window = "second"
              => probe.result.rl.window_buckets = 1

(* C10, amended: for every window kind but second, construction fails      *)
(* when window_buckets exceeds the maximum of the kind and succeeds at or  *)
(* below it; a second-window limiter is built whatever window_buckets is   *)
(* requested, with window_buckets = 1.                                     *)
C10_BucketsChecked ==
    Constructed =>
        IF probe.window = "second"
        THEN ~probe.result.raised /\ probe.result.rl.window_buckets = 1
        ELSE /\ probe.result.raised
                  <=> probe.window_buckets > WINDOW_BUCKETS_LIMITS[probe.window]
             /\ ~probe.result.raised
                  => probe.result.rl.window_buckets = probe.window_buckets

C10_Witness ==
    /\ Constructed
    /\ probe.window = "second"
    /\ probe.window_buckets = WINDOW_BUCKETS_LIMITS["second"] + 1
    /\ ~probe.result.raised
    /\ probe.result.rl.window_buckets = 1

---------------------------------------------------------------------------
(* Domain keys of two limiters: limiter 1 is hit once with one request on  *)
(* an empty store, then the counters of limiter 2 are read for another.    *)

IdInputs == {"a", "b", "a:b"}
AppInputs == {"c", "b:c"}
AppFilterInputs == {None} \cup {Some(a) : a \in AppInputs}
EndpointFilterInputs == {None, Some("/x")}
UserInputs == {"u1", "u2"}

LimiterInputs ==
    {RateLimiter(id, e, a, u, 1, "minute", 1) :
        id \in IdInputs, e \in EndpointFilterInputs, a \in AppFilterInputs,
        u \in BOOLEAN}

RequestInputs == {Req(a, u, "/x") : a \in AppInputs, u \in UserInputs}

InitKey == InitCtor

HitOneReadOther ==
    \E rl1, rl2 \in LimiterInputs, r1, r2 \in RequestInputs :
        /\ probe = NoProbe
        /\ rl1.id_or_name # rl2.id_or_name
        /\ _match(rl1, r1) /\ _match(rl2, r2)
        /\ \E r \in {is_limit_reached("ProcessState", state, <<rl1>>, r1, now,
                                           <<"none">>)} :
              /\ state' = r.state
              /\ probe' =
                    [op |-> "keys", rl1 |-> rl1, rl2 |-> rl2,
                     r1 |-> r1, r2 |-> r2,
                     key1 |-> _get_counter_domain_key(rl1, r1),
                     key2 |-> _get_counter_domain_key(rl2, r2),
                     count2 |-> SumOver(
                         DictAt(r.state, _get_counter_domain_key(rl2, r2)),
                         DOMAIN DictAt(r.state,
                                       _get_counter_domain_key(rl2, r2)))]
        /\ UNCHANGED <<rate_limits, requests, faults, lock, now, calls, last,
                       hist, th, applied, redis>>

NextKey == HitOneReadOther

SpecKey == InitKey /\ [][NextKey]_vars

(* C7: two limiters with different id_or_name never share a domain key,    *)
(* whatever their filters and the requests, so a hit on one leaves the     *)
(* count of the other at 0.                                                *)
C7_DistinctIdsDistinctKeys ==
    probe.op = "keys" =>
        /\ probe.key1 # probe.key2
        /\ probe.count2 = 0

---------------------------------------------------------------------------
(* Concurrent callers: every thread runs one is_limit_reached call on the  *)
(* shared ProcessState, one step at a time.  A thread's pc:                *)
(*   "idle"     not called yet                                             *)
(*   "acquire"  at "with self.lock" of hit_and_collect_counters            *)
(*   "write"    holds the lock, has read the bucket's counter              *)
(*   "iter"     has the returned mapping, before the loop of _hit          *)
(*   "loop"     in the loop over counters.items()                          *)
(*   "expire"   at the call of expire_buckets                              *)
(*   "relock"   at "with self.lock" of expire_buckets                      *)
(*   "pop"      holds the lock, popping the expired buckets                *)
(*   "done"     is_limit_reached has returned verdict                      *)

MaxConcTicks == 1

NoRange == [raised |-> TRUE, current_bucket |-> 0, first_bucket |-> 0,
            lifetime |-> 0]

NoLimiter == RateLimiter("", None, None, FALSE, 0, "second", 1)

Local ==
    [pc |-> "idle", request |-> Req("", "", ""), now |-> 0, todo |-> <<>>,
     rl |-> NoLimiter, key |-> "", wr |-> NoRange, tmp |-> 0, size |-> 0,
     seen |-> {}, total_hits |-> 0, expired |-> <<>>, verdict |-> FALSE,
     incremented |-> FALSE, snapshot |-> EmptyDict, rank |-> 0,
     summed |-> FALSE, raised |-> FALSE]

(* the generator of is_limit_reached moves to the next matching limiter   *)
(* and evaluates _hit up to its store call; all() ends at a hit that did   *)
(* not pass.                                                               *)
RECURSIVE Continue(_)
Continue(l) ==
    IF l.todo = <<>> THEN [l EXCEPT !.pc = "done", !.verdict = FALSE]
    ELSE LET rl == Head(l.todo)
             rest == [l EXCEPT !.todo = Tail(l.todo)]
             wr == _get_window_range(l.now, rl)
         IN  IF ~_match(rl, l.request) THEN Continue(rest)
             ELSE IF wr.raised
             THEN IF OnException THEN Continue(rest)
                  ELSE [rest EXCEPT !.pc = "done", !.verdict = TRUE]
             ELSE [rest EXCEPT
                      !.pc = "acquire", !.rl = rl, !.wr = wr,
                      !.key = _get_counter_domain_key(rl, l.request),
                      !.total_hits = 0, !.expired = <<>>, !.seen = {},
                      !.summed = FALSE]

(* _hit returned passed *)
AfterHit(l, passed) ==
    IF passed THEN Continue(l)
    ELSE [l EXCEPT !.pc = "done", !.verdict = TRUE]

(* what has been done to bucket b of domain key k: n increments were      *)
(* completed, and popped says whether expire_buckets ever removed it       *)
AppliedTo(k, b) ==
    IF <<k, b>> \in DOMAIN applied THEN applied[<<k, b>>]
    ELSE [n |-> 0, popped |-> FALSE]

(* a lock that admits everybody *)
CanAcquireAlways(t) == TRUE

(* threading.Lock: "with self.lock" enters when nobody holds the lock *)
CanAcquire(t) == lock = NoThread

ConcOneBucket ==
    [rate_limits |-> <<RateLimiter("m", None, None, FALSE, 1, "minute", 1)>>,
     requests |-> {Req("a1", "u1", "/x")},
     faults |-> {"none"}]

ConcRolling ==
    [rate_limits |-> <<RateLimiter("s", None, None, FALSE, 1, "second", 1)>>,
     requests |-> {Req("a1", "u1", "/x")},
     faults |-> {"none"}]

ConcScenarios == {ConcOneBucket, ConcRolling}

InitConc ==
    /\ \E s \in ConcScenarios :
          /\ rate_limits = s.rate_limits
          /\ requests = s.requests
          /\ faults = s.faults
    /\ state = <<>>
    /\ lock = NoThread
    /\ now = 0
    /\ calls = 0
    /\ last = NoCall
    /\ hist = <<>>
    /\ th = [t \in Threads |-> Local]
    /\ applied = <<>>
    /\ probe = NoProbe
    /\ redis = <<>>

TickConc ==
    /\ now < MaxConcTicks * TickStep
    /\ now' = now + TickStep
    /\ UNCHANGED <<rate_limits, requests, faults, state, lock, calls, last,
                   hist, th, applied, probe, redis>>

(* is_limit_reached is called: sorted(), time.time(), the first limiter *)
Begin(t) ==
    /\ th[t].pc = "idle"
    /\ \E request \in requests :
          th' = [th EXCEPT ![t] =
                    Continue([@ EXCEPT !.request = request, !.now = now,
                                       !.todo = SortedByLimit(rate_limits)])]
    /\ calls' = calls + 1
    /\ UNCHANGED <<rate_limits, requests, faults, state, lock, now, last,
                   hist, applied, probe, redis>>

(* hit_and_collect_counters: with self.lock, setdefault, and the read of  *)
(* domain_buckets[bucket] += 1                                             *)
Acquire(t) ==
    /\ th[t].pc = "acquire"
    /\ CanAcquire(t)
    /\ lock' = t
    /\ LET k == th[t].key
           b == Str(th[t].wr.current_bucket)
           d == GetItem(SetDefault(state, k)[k], b)
       IN  /\ state' = SetItem(state, k, d)
           /\ th' = [th EXCEPT ![t].pc = "write", ![t].tmp = d[b]]
    /\ UNCHANGED <<rate_limits, requests, faults, now, calls, last, hist,
                   applied, probe, redis>>

(* the write of domain_buckets[bucket] += 1, the return of the mapping    *)
(* itself and the release of the lock                                      *)
Write(t) ==
    /\ th[t].pc = "write"
    /\ LET k == th[t].key
           b == Str(th[t].wr.current_bucket)
           d == SetItem(DictAt(state, k), b, th[t].tmp + 1)
       IN  /\ state' = SetItem(state, k, d)
           /\ th' = [th EXCEPT ![t].pc = "iter", ![t].incremented = TRUE,
                               ![t].snapshot = d, ![t].rank = d[b]]
           /\ applied' = SetItem(applied, <<k, b>>,
                                 [AppliedTo(k, b) EXCEPT !.n = @ + 1])
    /\ lock' = NoThread
    /\ UNCHANGED <<rate_limits, requests, faults, now, calls, last, hist,
                   probe, redis>>

(* for bucket, hits in counters.items(): the iterator is created on the   *)
(* live mapping and remembers its size                                     *)
IterStart(t) ==
    /\ th[t].pc = "iter"
    /\ th' = [th EXCEPT ![t].pc = "loop",
                        ![t].size = Cardinality(DOMAIN DictAt(state, th[t].key)),
                        ![t].seen = {}]
    /\ UNCHANGED <<rate_limits, requests, faults, state, lock, now, calls,
                   last, hist, applied, probe, redis>>

(* one step of the loop: RuntimeError when the mapping changed size, else *)
(* the next item is sorted into expired or added to total_hits, else the   *)
(* loop ends                                                               *)
LoopStep(t) ==
    /\ th[t].pc = "loop"
    /\ LET l == th[t]
           d == DictAt(state, l.key)
           left == DOMAIN d \ l.seen
       IN  IF Cardinality(DOMAIN d) # l.size
           THEN th' = [th EXCEPT ![t] =
                          AfterHit([l EXCEPT !.raised = TRUE], OnException)]
           ELSE IF left = {}
           THEN th' = [th EXCEPT ![t].pc = "expire", ![t].summed = TRUE]
           ELSE \E b \in left :
                   IF ~Parseable(b)
                   THEN th' = [th EXCEPT ![t] =
                                  AfterHit([l EXCEPT !.raised = TRUE],
                                           OnException)]
                   ELSE IF Timestamp(b) < l.wr.first_bucket
                   THEN th' = [th EXCEPT ![t].seen = @ \cup {b},
                                         ![t].expired = Append(@, b)]
                   ELSE th' = [th EXCEPT ![t].seen = @ \cup {b},
                                         ![t].total_hits = @ + d[b]]
    /\ UNCHANGED <<rate_limits, requests, faults, state, lock, now, calls,
                   last, hist, applied, probe, redis>>

(* expire_buckets: self.state.get(domain_key) and the test of the mapping, *)
(* made without the lock                                                   *)
ExpireGet(t) ==
    /\ th[t].pc = "expire"
    /\ IF DictAt(state, th[t].key) = EmptyDict
       THEN th' = [th EXCEPT ![t] =
                      AfterHit(@, WithinLimit(@.total_hits, @.rl))]
       ELSE th' = [th EXCEPT ![t].pc = "relock"]
    /\ UNCHANGED <<rate_limits, requests, faults, state, lock, now, calls,
                   last, hist, applied, probe, redis>>

(* expire_buckets: with self.lock *)
ExpireAcquire(t) ==
    /\ th[t].pc = "relock"
    /\ CanAcquire(t)
    /\ lock' = t
    /\ th' = [th EXCEPT ![t].pc = "pop"]
    /\ UNCHANGED <<rate_limits, requests, faults, state, now, calls, last,
                   hist, applied, probe, redis>>

(* expire_buckets: domain_buckets.pop(x) for the next x of buckets; a key *)
(* popped is gone for the iterators that had passed it, so that they meet *)
(* it again should it be inserted anew                                     *)
PopStep(t) ==
    /\ th[t].pc = "pop"
    /\ th[t].expired # <<>>
    /\ LET k == th[t].key
           b == Head(th[t].expired)
       IN  /\ state' = SetItem(state, k, Pop(DictAt(state, k), b))
           /\ th' = [u \in Threads |->
                        IF u = t THEN [th[u] EXCEPT !.expired = Tail(@)]
                        ELSE IF th[u].key = k
                        THEN [th[u] EXCEPT !.seen = @ \ {b}]
                        ELSE th[u]]
           /\ applied' = SetItem(applied, <<k, b>>,
                                 [AppliedTo(k, b) EXCEPT !.popped = TRUE])
    /\ UNCHANGED <<rate_limits, requests, faults, lock, now, calls, last,
                   hist, probe, redis>>

(* expire_buckets returns, releasing the lock, and _hit returns            *)
(* total_hits <= rl.limit                                                  *)
ExpireRelease(t) ==
    /\ th[t].pc = "pop"
    /\ th[t].expired = <<>>
    /\ lock' = NoThread
    /\ th' = [th EXCEPT ![t] = AfterHit(@, WithinLimit(@.total_hits, @.rl))]
    /\ UNCHANGED <<rate_limits, requests, faults, state, now, calls, last,
                   hist, applied, probe, redis>>

NextConc ==
    \/ TickConc
    \/ \E t \in Threads :
          \/ Begin(t)
          \/ Acquire(t)
          \/ Write(t)
          \/ IterStart(t)
          \/ LoopStep(t)
          \/ ExpireGet(t)
          \/ ExpireAcquire(t)
          \/ PopStep(t)
          \/ ExpireRelease(t)

SpecConc == InitConc /\ [][NextConc]_vars

(* C5: concurrent hit_and_collect_counters calls on one domain key lose no *)
(* increment: a bucket that was never expired holds as many hits as        *)
(* increments were completed on it, N once N concurrent hits are through.  *)
IncrementedBy(k, b) ==
    {t \in Threads : /\ th[t].incremented
                     /\ th[t].key = k
                     /\ Str(th[t].wr.current_bucket) = b}

C5_NoLostIncrement ==
    \A kb \in DOMAIN applied :
        ~applied[kb].popped =>
            /\ CountAt(state, kb[1], kb[2]) = applied[kb].n
            /\ applied[kb].n = Cardinality(IncrementedBy(kb[1], kb[2]))

C5_Witness ==
    /\ \A t \in Threads : th[t].pc = "done"
    /\ NThreads >= 2
    /\ \E kb \in DOMAIN applied :
          /\ ~applied[kb].popped
          /\ IncrementedBy(kb[1], kb[2]) = Threads
          /\ CountAt(state, kb[1], kb[2]) = NThreads

(* C6: every caller evaluates its verdict on the counters as they were     *)
(* right after its own increment: the loop of _hit ends with the           *)
(* total_hits and the expired buckets of that snapshot, so a request whose *)
(* increment was among the first limit ones of a bucket is allowed.        *)
C6_SnapshotVerdict ==
    \A t \in Threads :
        /\ th[t].summed =>
              /\ th[t].total_hits = TotalHits(th[t].snapshot, th[t].wr)
              /\ {th[t].expired[i] : i \in 1..Len(th[t].expired)}
                     \subseteq ExpiredOf(th[t].snapshot, th[t].wr)
        /\ th[t].pc = "done" /\ th[t].incremented
           /\ th[t].rank <= th[t].rl.limit
              => ~th[t].verdict

---------------------------------------------------------------------------
(* The two stores under direct calls: hit_and_collect_counters fills both  *)
(* with the same hits, expire_buckets is called on both with any domain    *)
(* key and any list of bucket ids, and once more with the same arguments.  *)

MaxStoreOps == 3

StoreKeys == {"k1"}
UnknownKey == "k3"
StoreLimiter == RateLimiter("k", None, None, FALSE, 1, "minute", 2)
BucketIdInputs == SUBSET {Str(0), Str(30), Str(90)}

InitStore ==
    /\ rate_limits = <<StoreLimiter>>
    /\ requests = {}
    /\ faults = {"none"}
    /\ state = <<>>
    /\ lock = NoThread
    /\ now = 0
    /\ calls = 0
    /\ last = NoCall
    /\ hist = <<>>
    /\ th = [t \in Threads |-> Idle]
    /\ applied = <<>>
    /\ probe = NoProbe
    /\ redis = <<>>

TickStore ==
    /\ now < MaxTicks * TickStep
    /\ now' = now + TickStep
    /\ UNCHANGED <<rate_limits, requests, faults, state, lock, calls, last,
                   hist, th, applied, probe, redis>>

(* state.hit_and_collect_counters(domain_key, window_range) on each store *)
StoreHit ==
    \E domain_key \in StoreKeys :
        LET window_range == _get_window_range(now, StoreLimiter)
        IN  /\ calls < MaxStoreOps
            /\ state' = hit_and_collect_counters("ProcessState", state, now,
                                                 domain_key, window_range)
            /\ redis' = hit_and_collect_counters("RedisState", redis, now,
                                                 domain_key, window_range)
            /\ calls' = calls + 1
            /\ probe' = [op |-> "hit_and_collect_counters"]
            /\ UNCHANGED <<rate_limits, requests, faults, lock, now, last,
                           hist, th, applied>>

(* state.expire_buckets(domain_key, buckets) on each store, and what a     *)
(* second call with the same arguments would leave                         *)
StoreExpire ==
    \E domain_key \in StoreKeys \cup {UnknownKey}, buckets \in BucketIdInputs :
        LET p1 == expire_buckets("ProcessState", state, now, domain_key,
                                 buckets)
            p2 == expire_buckets("ProcessState", p1.st, now, domain_key,
                                 buckets)
            r1 == expire_buckets("RedisState", redis, now, domain_key,
                                 buckets)
            r2 == expire_buckets("RedisState", r1.st, now, domain_key,
                                 buckets)
        IN  /\ state' = p1.st
            /\ redis' = r1.st
            /\ probe' = [op |-> "expire_buckets", t |-> now,
                         domain_key |-> domain_key, buckets |-> buckets,
                         process |-> [before |-> state, once |-> p1.st,
                                      twice |-> p2.st,
                                      raised |-> p1.raised \/ p2.raised],
                         shared |-> [before |-> redis, once |-> r1.st,
                                     twice |-> r2.st,
                                     raised |-> r1.raised \/ r2.raised]]
            /\ UNCHANGED <<rate_limits, requests, faults, lock, now, calls,
                           last, hist, th, applied>>

NextStore == TickStore \/ StoreHit \/ StoreExpire

SpecStore == InitStore /\ [][NextStore]_vars

Expired == probe.op = "expire_buckets"

(* the buckets the domain key of the call held in each store *)
HeldInProcess == DOMAIN DictAt(probe.process.before, probe.domain_key)
HeldInRedis == DOMAIN HGetAll(probe.shared.before, probe.t, probe.domain_key)

(* C11: expire_buckets with an empty list, with bucket ids the domain key  *)
(* does not hold or with a domain key the store does not hold raises no    *)
(* error and leaves the store as it was, in both stores; a second call     *)
(* with the same ids leaves the store as the first call left it.           *)
C11_ExpireIdempotent ==
    Expired =>
        /\ ~probe.process.raised /\ ~probe.shared.raised
        /\ probe.buckets \cap HeldInProcess = {}
              => probe.process.once = probe.process.before
        /\ probe.buckets \cap HeldInRedis = {}
              => probe.shared.once = probe.shared.before
        /\ probe.process.twice = probe.process.once
        /\ probe.shared.twice = probe.shared.once

C11_Witness ==
    /\ Expired
    /\ probe.buckets = {Str(90)}
    /\ HeldInProcess = {Str(0), Str(30)}
    /\ HeldInRedis = {Str(0), Str(30)}
    /\ probe.process.once = probe.process.before
    /\ probe.shared.once = probe.shared.before
    /\ state # <<>> /\ redis # <<>>

---------------------------------------------------------------------------
(* The decision engine on both stores: every call of is_limit_reached is   *)
(* made, with the same limiters, request and clock, once on a ProcessState *)
(* and once on a RedisState; last holds what the call did on the former,   *)
(* probe what it did on the latter.                                        *)

Shortlived ==
    [rate_limits |-> <<RateLimiter("p", None, None, TRUE, 2, "second", 1),
                       RateLimiter("q", Some("/x"), None, FALSE, 1, "minute", 1)>>,
     requests |-> {Req("a1", "A", "/x"), Req("a1", "B", "/y")},
     faults |-> {"none"}]

BothScenarios == {Rolling, Shortlived}

NoFault == [i \in 1..2 |-> "none"]

InitBoth ==
    /\ \E s \in BothScenarios :
          /\ rate_limits = s.rate_limits
          /\ requests = s.requests
          /\ faults = s.faults
    /\ state = <<>>
    /\ lock = NoThread
    /\ now = 0
    /\ calls = 0
    /\ last = NoCall
    /\ hist = <<>>
    /\ th = [t \in Threads |-> Idle]
    /\ applied = <<>>
    /\ probe = NoProbe
    /\ redis = <<>>

TickBoth ==
    /\ now < MaxTicks * TickStep
    /\ now' = now + TickStep
    /\ UNCHANGED <<rate_limits, requests, faults, state, lock, calls, last,
                   hist, th, applied, probe, redis>>

(* what a hit left in the store's result, without the store *)
Outcome(h) ==
    [key |-> h.key, passed |-> h.passed, raised |-> h.raised,
     total_hits |-> h.total_hits, first_bucket |-> h.first_bucket,
     current_bucket |-> h.current_bucket, expired |-> h.expired]

CallBoth ==
    \E request \in requests :
        /\ calls < MaxCalls
        /\ \E p \in {is_limit_reached("ProcessState", state, rate_limits,
                                      request, now, NoFault)} :
           \E r \in {is_limit_reached("RedisState", redis, rate_limits,
                                      request, now, NoFault)} :
              /\ state' = p.state
              /\ redis' = r.state
              /\ last' = [request |-> request, t |-> now,
                          verdict |-> p.verdict,
                          hits |-> LogOf(hist, p.hits), before |-> state]
              /\ hist' = HistAfter(hist, p.hits)
              /\ probe' = [op |-> "is_limit_reached", verdict |-> r.verdict,
                           hits |-> [i \in 1..Len(r.hits) |->
                                        Outcome(r.hits[i])],
                           before |-> redis]
        /\ calls' = calls + 1
        /\ UNCHANGED <<rate_limits, requests, faults, lock, now, th, applied>>

NextBoth == TickBoth \/ CallBoth

SpecBoth == InitBoth /\ [][NextBoth]_vars

CalledBoth == probe.op = "is_limit_reached"

(* the hashes whose time to live had elapsed at clock t *)
Elapsed(rs, t) == {k \in DOMAIN rs : ~Alive(rs, t, k)}

(* C12: with the same limiters, requests and clock, is_limit_reached       *)
(* returns the same verdict on a RedisState as on a ProcessState, call     *)
(* after call, and hits the same limiters with the same results.           *)
C12_StoresAgree ==
    CalledBoth =>
        /\ probe.verdict = last.verdict
        /\ Len(probe.hits) = Len(last.hits)
        /\ \A i \in 1..Len(probe.hits) :
              /\ probe.hits[i].key = last.hits[i].key
              /\ probe.hits[i].passed = last.hits[i].passed

C12_Witness ==
    /\ CalledBoth
    /\ \E i \in 1..Len(probe.hits) :
          /\ probe.hits[i].key \in Elapsed(probe.before, last.t)
          /\ last.hits[i].expired # {}
          /\ probe.hits[i].expired = {}
          /\ last.hits[i].total_hits = 1
    /\ probe.verdict = last.verdict

(* C19: every hit leaves its domain key with lifetime seconds to live; a   *)
(* hash whose time to live has elapsed holds only buckets older than the   *)
(* first bucket of any hit made from then on, so that every hit counts the *)
(* same total_hits in the shared store as in a store that drops nothing.   *)
C19_TtlKeepsWindow ==
    /\ CalledBoth =>
          /\ \A rl \in Limiters :
                LET k == _get_counter_domain_key(rl, last.request)
                IN  (\E i \in 1..Len(probe.hits) :
                        probe.hits[i].key = k /\ ~probe.hits[i].raised)
                    => /\ k \in DOMAIN redis
                       /\ redis[k].expire_at
                            = last.t + _get_window_range(last.t, rl).lifetime
          /\ \A i \in 1..Len(probe.hits) :
                i <= Len(last.hits) =>
                    probe.hits[i].total_hits = last.hits[i].total_hits
    /\ \A rl \in Limiters : \A request \in requests :
          LET k == _get_counter_domain_key(rl, request)
          IN  k \in Elapsed(redis, now) =>
                  \A b \in DOMAIN redis[k].fields :
                      Timestamp(b) < _get_window_range(now, rl).first_bucket

C19_Witness ==
    /\ CalledBoth
    /\ rate_limits = Rolling.rate_limits
    /\ \E k \in Elapsed(redis, now) :
          /\ redis[k].fields # EmptyDict
          /\ redis[k].expire_at <= now
          /\ DictAt(state, k) = redis[k].fields

---------------------------------------------------------------------------
(* C13: while a call that has applied its increment has not yet summed the *)
(* counters, no expire_buckets of another call deletes the bucket it       *)
(* incremented: the bucket is in the domain key's mapping, with at least   *)
(* that increment.                                                         *)
C13_ExpiryKeepsRunningHits ==
    \A t \in Threads :
        th[t].incremented /\ th[t].pc = "iter" =>
            CountAt(state, th[t].key, Str(th[t].wr.current_bucket)) >= 1

---------------------------------------------------------------------------
(* C14 as stated: once hit_and_collect_counters has returned the counters, *)
(* the hit is within limit iff total_hits <= limit, whether the            *)
(* expire_buckets call that follows succeeds or raises.                    *)
C14_VerdictIgnoresExpire ==
    \A e \in Entries :
        e.incremented => (e.passed <=> e.total_hits <= e.limit)

(* C14, amended: once hit_and_collect_counters has returned the counters,  *)
(* the hit is within limit iff total_hits <= limit when expire_buckets     *)
(* returns, and is within limit whatever total_hits is when expire_buckets *)
(* raises.                                                                 *)
C14_ExpireFailureFailsOpen ==
    \A e \in Entries :
        e.incremented =>
            IF e.raised THEN e.passed
            ELSE e.passed <=> e.total_hits <= e.limit

C14_Witness ==
    /\ faults = {"none", "expire"}
    /\ \E e \in Entries :
          /\ e.incremented /\ e.raised
          /\ e.total_hits > e.limit
          /\ e.passed
    /\ \E e \in Entries : e.incremented /\ ~e.raised /\ ~e.passed

---------------------------------------------------------------------------
(* Window arithmetic: _get_window_range on every limiter construction      *)
(* accepts with 1 <= window_buckets and on clocks around bucket and window *)
(* boundaries.                                                             *)

MaxRangeSteps == 2

RangeLimiters ==
    UNION {{RateLimiter("t", None, None, FALSE, 1, window, window_buckets) :
               window_buckets \in 1..WINDOW_BUCKETS_LIMITS[window]} :
           window \in Windows}

(* clocks: the first seconds, and the seconds around k whole windows *)
ClockInputs(rl) ==
    LET w == _SECONDS_IN_WINDOW_SIZE[rl.window]
    IN  0..MaxRangeSteps
        \cup {k * w + d : k \in 1..MaxRangeSteps, d \in -1..1}
        \cup {k * (w \div rl.window_buckets) + d :
                 k \in 1..MaxRangeSteps, d \in -1..1}

InitRange == InitCtor

WindowRangeOf ==
    \E rl \in RangeLimiters :
        \E t \in ClockInputs(rl) :
            /\ probe = NoProbe
            /\ probe' = [op |-> "_get_window_range", now |-> t, rl |-> rl,
                         result |-> _get_window_range(t, rl)]
            /\ UNCHANGED <<rate_limits, requests, faults, state, lock, now,
                           calls, last, hist, th, applied, redis>>

NextRange == WindowRangeOf

SpecRange == InitRange /\ [][NextRange]_vars

Ranged == probe.op = "_get_window_range"

(* the bucket ids from first to current, seconds_per_bucket apart *)
BucketIds(first, current, seconds_per_bucket) ==
    {b \in first..current : (b - first) % seconds_per_bucket = 0}

(* C15: with seconds_per_bucket = seconds of the window div window_buckets *)
(* and serial = now div seconds_per_bucket, current_bucket is serial *      *)
(* seconds_per_bucket, first_bucket is (serial - window_buckets + 1) *      *)
(* seconds_per_bucket and lifetime is window_buckets * seconds_per_bucket; *)
(* current_bucket <= now < current_bucket + seconds_per_bucket, and        *)
(* first_bucket..current_bucket holds exactly window_buckets bucket ids.   *)
C15_WindowArithmetic ==
    Ranged =>
        LET rl == probe.rl
            r == probe.result
            seconds_per_bucket ==
                _SECONDS_IN_WINDOW_SIZE[rl.window] \div rl.window_buckets
            serial == probe.now \div seconds_per_bucket
        IN  /\ ~r.raised
            /\ seconds_per_bucket >= 1
            /\ r.current_bucket = serial * seconds_per_bucket
            /\ r.first_bucket
                 = (serial - rl.window_buckets + 1) * seconds_per_bucket
            /\ r.lifetime = rl.window_buckets * seconds_per_bucket
            /\ r.current_bucket <= probe.now
            /\ probe.now < r.current_bucket + seconds_per_bucket
            /\ r.current_bucket - r.first_bucket
                 = (rl.window_buckets - 1) * seconds_per_bucket
            /\ rl.window \in {"second", "minute"} =>
                  Cardinality(BucketIds(r.first_bucket, r.current_bucket,
                                        seconds_per_bucket))
                      = rl.window_buckets

C15_Witness ==
    /\ Ranged
    /\ probe.rl.window = "minute" /\ probe.rl.window_buckets = 7
    /\ probe.now = 2 * 60 + 1
    /\ probe.result.current_bucket = 120
    /\ probe.result.first_bucket = 72
    /\ probe.result.lifetime = 56

---------------------------------------------------------------------------
(* C16: with an error-free store, after a hit of a limiter the mapping of  *)
(* its domain key holds only buckets from the hit's first_bucket on, the   *)
(* older ones having been left out of total_hits and removed; and no       *)
(* domain key ever holds more buckets than its limiter's window_buckets.   *)
BucketsAt(k) == {Timestamp(b) : b \in DOMAIN DictAt(state, k)}

C16_OnlyWindowBuckets ==
    faults = {"none"} =>
        /\ \A e \in Entries :
              ~e.raised =>
                  /\ \A b \in BucketsAt(e.key) :
                        e.first_bucket <= b /\ b <= e.current_bucket
                  /\ \A b \in e.expired :
                        /\ Timestamp(b) < e.first_bucket
                        /\ b \notin DOMAIN DictAt(state, e.key)
                  /\ e.total_hits
                       = SumOver(DictAt(state, e.key),
                                 DOMAIN DictAt(state, e.key))
        /\ \A rl \in Limiters : \A request \in requests :
              Cardinality(BucketsAt(_get_counter_domain_key(rl, request)))
                  <= rl.window_buckets

C16_Witness ==
    /\ rate_limits = Rolling.rate_limits
    /\ \E e \in Entries :
          /\ ~e.raised
          /\ e.expired = {Str(0)}
          /\ BucketsAt(e.key) = {30, 60}
          /\ e.first_bucket = 30

---------------------------------------------------------------------------
(* A limiter is reconfigured: under one id_or_name, a configuration is hit *)
(* once with a request on an empty store, then the counters of another     *)
(* configuration that differs from it in a filter or in the per-user flag  *)
(* are read for the same request.                                          *)

EndpointConfigs == {None, Some(""), Some("/x"), Some("~anyendpoint")}
AppConfigs == {None, Some("a1"), Some("~anyapp")}

ConfigInputs ==
    {RateLimiter("t", ef, af, uf, 1, "minute", 1) :
        ef \in EndpointConfigs, af \in AppConfigs, uf \in BOOLEAN}

ConfigRequests ==
    {Req(a, u, ep) : a \in {"a1", "~anyapp"}, u \in {"u1", "~anyuser"},
                     ep \in {"/x", "~anyendpoint"}}

InitConfig == InitCtor

Reconfigure ==
    \E old, new \in ConfigInputs, request \in ConfigRequests :
        /\ probe = NoProbe
        /\ old # new
        /\ \E r \in {is_limit_reached("ProcessState", state, <<old>>, request,
                                      now, <<"none">>)} :
              LET old_key == _get_counter_domain_key(old, request)
                  new_key == _get_counter_domain_key(new, request)
              IN  /\ state' = r.state
                  /\ probe' =
                        [op |-> "reconfigure", old |-> old, new |-> new,
                         request |-> request,
                         old_key |-> old_key, new_key |-> new_key,
                         stale |-> SumOver(DictAt(r.state, new_key),
                                           DOMAIN DictAt(r.state, new_key))]
        /\ UNCHANGED <<rate_limits, requests, faults, lock, now, calls, last,
                       hist, th, applied, redis>>

NextConfig == Reconfigure

SpecConfig == InitConfig /\ [][NextConfig]_vars

(* C17: for one id_or_name and one request, two configurations that differ *)
(* in the endpoint filter, the application filter or the per-user flag     *)
(* have different domain keys, so that no hit counted under the one is     *)
(* read under the other.                                                   *)
C17_ConfigChangesKey ==
    probe.op = "reconfigure" =>
        /\ probe.old_key # probe.new_key
        /\ probe.stale = 0

---------------------------------------------------------------------------
(* The order of the limiters: every call is made with the limiters in an   *)
(* order of the caller's choice, and compared with what the same call, on  *)
(* the same store at the same clock, does with them in another order.      *)

MaxOrderCalls == 3

(* the sequences that hold the elements of seq once each, in any order *)
OrdersOf(seq) ==
    {[i \in 1..Len(seq) |-> seq[f[i]]] :
        f \in {g \in [1..Len(seq) -> 1..Len(seq)] :
                  \A i, j \in 1..Len(seq) : g[i] = g[j] => i = j}}

EqualLimits ==
    [rate_limits |-> <<RateLimiter("ta", Some("/x"), None, FALSE, 1, "minute", 1),
                       RateLimiter("tb", None, None, FALSE, 1, "minute", 1),
                       RateLimiter("tc", None, None, FALSE, 2, "minute", 1)>>,
     requests |-> {Req("a1", "u1", "/x"), Req("a1", "u1", "/y")},
     faults |-> {"none"}]

DistinctLimits ==
    [rate_limits |-> <<RateLimiter("d2", None, None, FALSE, 2, "minute", 1),
                       RateLimiter("d1", Some("/x"), None, FALSE, 1, "minute", 1)>>,
     requests |-> {Req("a1", "u1", "/x"), Req("a1", "u1", "/y")},
     faults |-> {"none"}]

OrderScenarios == {EqualLimits, DistinctLimits}

InitOrder ==
    /\ \E s \in OrderScenarios :
          /\ rate_limits = s.rate_limits
          /\ requests = s.requests
          /\ faults = s.faults
    /\ state = <<>>
    /\ lock = NoThread
    /\ now = 0
    /\ calls = 0
    /\ last = NoCall
    /\ hist = <<>>
    /\ th = [t \in Threads |-> Idle]
    /\ applied = <<>>
    /\ probe = NoProbe
    /\ redis = <<>>

TickOrder ==
    /\ now < MaxTicks * TickStep
    /\ now' = now + TickStep
    /\ UNCHANGED <<rate_limits, requests, faults, state, lock, calls, last,
                   hist, th, applied, probe, redis>>

CallInOrder ==
    \E request \in requests :
    \E supplied, other \in OrdersOf(rate_limits) :
        LET fault == [i \in 1..Len(rate_limits) |-> "none"]
        IN  /\ calls < MaxOrderCalls
            /\ supplied # other
            /\ \E r \in {is_limit_reached("ProcessState", state, supplied,
                                          request, now, fault)} :
               \E o \in {is_limit_reached("ProcessState", state, other,
                                          request, now, fault)} :
                  /\ state' = r.state
                  /\ probe' = [op |-> "orders", request |-> request,
                               supplied |-> supplied, other |-> other,
                               verdict |-> r.verdict, state |-> r.state,
                               other_verdict |-> o.verdict,
                               other_state |-> o.state]
            /\ calls' = calls + 1
            /\ UNCHANGED <<rate_limits, requests, faults, lock, now, last,
                           hist, th, applied, redis>>

NextOrder == TickOrder \/ CallInOrder

SpecOrder == InitOrder /\ [][NextOrder]_vars

Ordered == probe.op = "orders"

(* the limiters matching the request of the call have different limits *)
MatchingLimitsDiffer ==
    \A rl1, rl2 \in {x \in Limiters : _match(x, probe.request)} :
        rl1 # rl2 => rl1.limit # rl2.limit

===========================================================================
